---- MODULE Spec2Model ----
(***************************************************************************)
(* gltf_conv: material override resolution and texture-key deduplication.  *)
(*                                                                         *)
(* Python values are tagged records, so that None, numbers, strings,       *)
(* pathlib.Path objects, tuples/lists of numbers and dicts stay distinct:  *)
(* a str and a Path naming the same file are different values, as in       *)
(* Python.  A dict is a function from its keys (strings) to values; an     *)
(* ordered dict whose order matters (the material database, key2list) is a *)
(* sequence of its items in insertion order.  Numbers are integers         *)
(* (alpha cutoffs are counted in tenths, so 0.5 is 5).                     *)
(***************************************************************************)
EXTENDS Integers, Sequences, FiniteSets, TLC

None == [t |-> "None"]
Num(n) == [t |-> "num", n |-> n]
Bool(b) == [t |-> "bool", b |-> b]
Str(s) == [t |-> "str", s |-> s]
Vec(v) == [t |-> "vec", v |-> v]
Dict(d) == [t |-> "dict", d |-> d]
Path(p) == [t |-> "Path", p |-> p]
\* an attribute that no statement of a constructor has assigned
Unset == [t |-> "unset"]

\* dict helpers: `k in d`, d.pop(k), d.get(k, default)
Has(d, k) == k \in DOMAIN d
Pop(d, k) == [x \in (DOMAIN d) \ {k} |-> d[x]]
Get(d, k, default) == IF k \in DOMAIN d THEN d[k] ELSE default

\* Python truth value of a value (`if override:`, `a or b`)
Truthy(v) ==
  CASE v.t = "None" -> FALSE
    [] v.t = "num" -> v.n # 0
    [] v.t = "bool" -> v.b
    [] v.t = "str" -> v.s # ""
    [] v.t = "vec" -> Len(v.v) # 0
    [] v.t = "dict" -> DOMAIN v.d # {}
    [] OTHER -> TRUE

\* `a or b`
Or(a, b) == IF Truthy(a) THEN a ELSE b

(***************************************************************************)
(* Exceptions.  `type` is "" when nothing was raised.  names / keys / key  *)
(* carry what the message interpolates.                                    *)
(***************************************************************************)
NoErr == [type |-> "", msg |-> "", names |-> <<>>, keys |-> {}, key |-> <<>>]
Raise(type, msg) == [type |-> type, msg |-> msg, names |-> <<>>, keys |-> {}, key |-> <<>>]
Raised(e) == e.type # ""

(***************************************************************************)
(* utils.py                                                                *)
(***************************************************************************)
is_numeric(obj) == obj.t \in {"num", "bool"}

is_numeric_sequence(obj) == obj.t = "vec"

\* the int a numeric value counts as in arithmetic (True is 1, False is 0)
NumVal(x) == IF x.t = "bool" THEN (IF x.b THEN 1 ELSE 0) ELSE x.n

\* the two cases of `match op` exchanged
ApplyOpSwapped(op, a, b) == IF op = "mult" THEN a + b ELSE a * b

ApplyOp(op, a, b) == IF op = "mult" THEN a * b ELSE a + b

\* _modulate returns [err, val]; val is meaningful only when nothing was raised
_modulate(original, modulator) ==
  IF modulator.t # "dict" THEN [err |-> NoErr, val |-> modulator]
  ELSE IF ~Has(modulator.d, "op") THEN [err |-> Raise("KeyError", "op"), val |-> None]
  ELSE IF ~Has(modulator.d, "value") THEN [err |-> Raise("KeyError", "value"), val |-> None]
  ELSE
    LET op == modulator.d["op"]
        value == modulator.d["value"]
    IN  IF ~(op.t = "str" /\ op.s \in {"mult", "add"})
          THEN [err |-> Raise("ValueError", "Unknown operator"), val |-> None]
        ELSE IF original.t = "None"
          THEN [err |-> Raise("ValueError", "Cannot modulate a None value"), val |-> None]
        ELSE IF ~(is_numeric(original) \/ is_numeric_sequence(original))
          THEN [err |-> Raise("ValueError", "Original value must be numeric"), val |-> None]
        ELSE IF ~(is_numeric(value) \/ is_numeric_sequence(value))
          THEN [err |-> Raise("ValueError", "Value must be numeric"), val |-> None]
        ELSE IF is_numeric(original) /\ is_numeric(value)
          THEN [err |-> NoErr, val |-> Num(ApplyOp(op.s, NumVal(original), NumVal(value)))]
        ELSE IF is_numeric(original) /\ is_numeric_sequence(value)
          THEN [err |-> Raise("ValueError", "Cannot modulate float by tuple"), val |-> None]
        ELSE IF is_numeric_sequence(original) /\ is_numeric(value)
          THEN [err |-> NoErr,
                val |-> Vec([i \in 1..Len(original.v) |->
                               ApplyOp(op.s, original.v[i], NumVal(value))])]
        ELSE IF Len(original.v) # Len(value.v)
          THEN [err |-> Raise("ValueError", "must be equal length"), val |-> None]
        ELSE [err |-> NoErr,
              val |-> Vec([i \in 1..Len(original.v) |->
                             ApplyOp(op.s, original.v[i], value.v[i])])]

\* an exception of _modulate swallowed: the original is kept
modulateLenient(original, modulator) ==
  LET out == _modulate(original, modulator)
  IN  IF Raised(out.err) THEN [err |-> NoErr, val |-> original] ELSE out

modulate(original, modulator) ==
  LET out == _modulate(original, modulator)
  IN  IF Raised(out.err) THEN out
      ELSE IF is_numeric(original) # is_numeric(out.val)
        THEN [err |-> Raise("AssertionError", "is_numeric"), val |-> None]
      ELSE IF is_numeric_sequence(original) # is_numeric_sequence(out.val)
        THEN [err |-> Raise("AssertionError", "is_numeric_sequence"), val |-> None]
      ELSE out

\* recursive_overwrite(A, B) on the dicts' item functions; returns A as mutated.
\* copy.deepcopy(v) is v: values are immutable here.
\* dict.update: a mapping of B replaces a mapping of A instead of merging
shallow_overwrite(A, B) ==
  [k \in (DOMAIN A) \cup (DOMAIN B) |-> IF k \in DOMAIN B THEN B[k] ELSE A[k]]

RECURSIVE recursive_overwrite(_, _)
recursive_overwrite(A, B) ==
  [k \in (DOMAIN A) \cup (DOMAIN B) |->
     IF k \notin DOMAIN B THEN A[k]
     ELSE IF k \in DOMAIN A /\ A[k].t = "dict" /\ B[k].t = "dict"
       THEN Dict(recursive_overwrite(A[k].d, B[k].d))
     ELSE B[k]]

(***************************************************************************)
(* gltf_src.py: a source document.  A source is                            *)
(*   [file, src_dir, materials, textures, images]                          *)
(* with materials a sequence of raw material dicts, textures[i] the image  *)
(* index ('source') of texture i-1 and images[j] the 'uri' of image j-1.   *)
(***************************************************************************)
\* os.path.join(src_dir, image_uri); every source is built with
\* conv_spec.src_dir, which is "" here, and os.path.join("", u) is u
os_path_join(src_dir, image_uri) == IF src_dir = "" THEN image_uri ELSE src_dir \o "/" \o image_uri

texture_idx2uri(src, index) ==
  IF index.t = "None" THEN None
  ELSE LET texture_src == src.textures[index.n + 1]
           image_uri == src.images[texture_src + 1]
       IN  Path(os_path_join(src.src_dir, image_uri))

(***************************************************************************)
(* gltf_material_utils.py                                                  *)
(***************************************************************************)
GLTF_TextureInfo(obj) == [t |-> "GLTF_TextureInfo", index |-> obj.d["index"]]

GLTF_NormalTexture(obj) ==
  [t |-> "GLTF_NormalTexture", index |-> obj.d["index"], scale |-> Get(obj.d, "scale", Num(1))]

GLTF_OcclusionTexture(obj) ==
  [t |-> "GLTF_OcclusionTexture", index |-> obj.d["index"],
   strength |-> Get(obj.d, "strength", Num(1))]

GLTF_PBRMetallicRoughness(obj) ==
  [t |-> "GLTF_PBRMetallicRoughness",
   base_color_factor |-> Get(obj.d, "baseColorFactor", Vec(<<1, 1, 1, 1>>)),
   base_color_texture |->
     IF Has(obj.d, "baseColorTexture") THEN GLTF_TextureInfo(obj.d["baseColorTexture"]) ELSE None,
   metallic_factor |-> Get(obj.d, "metallicFactor", None),
   roughness_factor |-> Get(obj.d, "roughnessFactor", None),
   metallic_roughness_texture |->
     IF Has(obj.d, "metallicRoughnessTexture")
       THEN GLTF_TextureInfo(obj.d["metallicRoughnessTexture"]) ELSE None]

\* alpha cutoffs are counted in tenths: 0.5 is 5
DefaultAlphaCutoff == 5

\* GLTF_Material.__init__(self, obj); obj is the raw dict's item function
GLTF_Material(obj) ==
  LET alpha_mode == Get(obj, "alphaMode", Str("OPAQUE"))
  IN  [t |-> "GLTF_Material",
       name |-> obj["name"].s,
       pbr_metallic_roughness |->
         IF Has(obj, "pbrMetallicRoughness")
           THEN GLTF_PBRMetallicRoughness(obj["pbrMetallicRoughness"]) ELSE None,
       normal_texture |->
         IF Has(obj, "normalTexture") THEN GLTF_NormalTexture(obj["normalTexture"]) ELSE None,
       occlusion_texture |->
         IF Has(obj, "occlusionTexture")
           THEN GLTF_OcclusionTexture(obj["occlusionTexture"]) ELSE None,
       emissive_texture |->
         IF Has(obj, "emissiveTexture") THEN GLTF_TextureInfo(obj["emissiveTexture"]) ELSE None,
       emissive_factor |-> Get(obj, "emissiveFactor", None),
       alpha_mode |-> alpha_mode,
       alpha_cutoff |->
         Get(obj, "alphaCuttoff",
             IF alpha_mode = Str("MASK") THEN Num(DefaultAlphaCutoff) ELSE None),
       double_sided |-> Get(obj, "doubleSided", Bool(FALSE))]

(***************************************************************************)
(* dxspec_material_utils.py: the slot constructors.  Each returns the      *)
(* instance's attributes and `err`, the exception it raised (NoErr: none). *)
(* `override` is None or a dict value.  The `if override:` block has the   *)
(* same three steps in every slot class: they are written once, with the   *)
(* slot's texture swizzle and the name of its strength attribute.          *)
(***************************************************************************)
UnknownOverrides(d) == [Raise("ValueError", "Unknown overrides") EXCEPT !.keys = DOMAIN d]

\* the uri replaced, the swizzle left as the source gave it
ApplyUriKeepSwizzle(self, o, tex_swizzle) ==
  IF Has(o, "uri") THEN [self EXCEPT !.uri = o["uri"]] ELSE self

\* if 'uri' in override: self.uri = override.pop( 'uri' ); self.swizzle = <tex_swizzle>
ApplyUri(self, o, tex_swizzle) ==
  IF Has(o, "uri") THEN [self EXCEPT !.uri = o["uri"], !.swizzle = tex_swizzle] ELSE self

\* self.<attr> = m, the result [err, val] of modulate
Modulated(self, attr, m) ==
  IF Raised(m.err) THEN [self EXCEPT !.err = m.err] ELSE [self EXCEPT ![attr] = m.val]

\* if <attr> in override: self.<attr> = modulate( self.<attr>, override.pop( <attr> ) );
\* reading an attribute that was never assigned raises AttributeError
ApplyModifier(self, o, attr) ==
  IF ~Has(o, attr) THEN self
  ELSE IF self[attr].t = "unset" THEN [self EXCEPT !.err = Raise("AttributeError", attr)]
  ELSE Modulated(self, attr, modulate(self[attr], o[attr]))

\* the slot's final check left out
CheckLeftoverSkipped(self, rest) == self

\* if len( override ) > 0: raise ValueError( f'Unknown overrides: {override}' )
CheckLeftover(self, rest) ==
  IF Raised(self.err) THEN self
  ELSE IF DOMAIN rest # {} THEN [self EXCEPT !.err = UnknownOverrides(rest)]
  ELSE self

\* the whole `if override:` block
ApplyOverride(self, override, tex_swizzle, attr) ==
  IF ~Truthy(override) THEN self
  ELSE CheckLeftover(ApplyModifier(ApplyUri(self, override.d, tex_swizzle), override.d, attr),
                     Pop(Pop(override.d, "uri"), attr))

DXSpec_NormalTexture(obj, src, override) ==
  ApplyOverride(
    IF obj.t = "None"
      THEN [err |-> NoErr, uri |-> None, swizzle |-> "hh", scale |-> Num(1)]
      ELSE [err |-> NoErr, uri |-> texture_idx2uri(src, obj.index),
            swizzle |-> "rg", scale |-> obj.scale],
    override, "rg", "scale")

DXSpec_OcclusionTexture(obj, src, override) ==
  ApplyOverride(
    IF obj.t = "None"
      THEN [err |-> NoErr, uri |-> None, swizzle |-> "1", strength |-> Num(1)]
      ELSE [err |-> NoErr, uri |-> texture_idx2uri(src, obj.index),
            swizzle |-> "r", strength |-> obj.strength],
    override, "r", "strength")

\* DXSpec_RoughnessTexture.default_strength = 1.0
RoughnessDefaultStrength == 1

DXSpec_RoughnessTexture(obj, src, override) ==
  ApplyOverride(
    IF obj.t = "None"
      THEN [err |-> NoErr, uri |-> None, swizzle |-> "1",
            strength |-> Num(RoughnessDefaultStrength)]
    ELSE IF Truthy(obj.metallic_roughness_texture)
      THEN [err |-> NoErr,
            uri |-> texture_idx2uri(src, obj.metallic_roughness_texture.index),
            swizzle |-> "g", strength |-> Or(obj.roughness_factor, Num(1))]
    ELSE [err |-> NoErr, uri |-> None, swizzle |-> "1",
          strength |-> Or(obj.roughness_factor, Num(RoughnessDefaultStrength))],
    override, "g", "strength")

\* DXSpec_MetalnessTexture.default_strength = 0.0
MetalnessDefaultStrength == 0

DXSpec_MetalnessTexture(obj, src, override) ==
  ApplyOverride(
    IF obj.t = "None"
      THEN [err |-> NoErr, uri |-> None, swizzle |-> "1",
            strength |-> Num(MetalnessDefaultStrength)]
    ELSE IF Truthy(obj.metallic_roughness_texture)
      THEN [err |-> NoErr,
            uri |-> texture_idx2uri(src, obj.metallic_roughness_texture.index),
            swizzle |-> "b", strength |-> Or(obj.metallic_factor, Num(1))]
    ELSE [err |-> NoErr, uri |-> None, swizzle |-> "1",
          strength |-> Or(obj.metallic_factor, Num(MetalnessDefaultStrength))],
    override, "b", "strength")

\* 'rgb1' if alpha_mode == 'OPAQUE' else 'rgba'
DiffuseSwizzle(alpha_mode) == IF alpha_mode = Str("OPAQUE") THEN "rgb1" ELSE "rgba"

\* alpha_mode is the blend mode DXSpec_Material passes (a value)
DXSpec_DiffuseTexture(obj, alpha_mode, src, override) ==
  ApplyOverride(
    IF obj.t = "None"
      THEN [err |-> NoErr, uri |-> None, swizzle |-> "1111", strength |-> Vec(<<1, 1, 1, 1>>)]
    ELSE IF Truthy(obj.base_color_texture)
      THEN [err |-> NoErr, uri |-> texture_idx2uri(src, obj.base_color_texture.index),
            swizzle |-> DiffuseSwizzle(alpha_mode), strength |-> obj.base_color_factor]
    ELSE [err |-> NoErr, uri |-> None, swizzle |-> "1111", strength |-> obj.base_color_factor],
    override, DiffuseSwizzle(alpha_mode), "strength")

\* the first exception of the three constructor calls, in call order
FirstErr(a, b, c) == IF Raised(a.err) THEN a.err ELSE IF Raised(b.err) THEN b.err ELSE c.err

OrmOf(occlusion, roughness, metalness) ==
  [err |-> FirstErr(occlusion, roughness, metalness),
   occlusion |-> occlusion, roughness |-> roughness, metalness |-> metalness]

\* obj is the GLTF_Material, override the material's override dict (item
\* function) as DXSpec_Material has left it; the three sub-records are popped
DXSpec_OcclusionRoughnessMetalness(obj, src, override) ==
  OrmOf(DXSpec_OcclusionTexture(obj.occlusion_texture, src, Get(override, "occlusion", None)),
        DXSpec_RoughnessTexture(obj.pbr_metallic_roughness, src,
                                Get(override, "roughness", None)),
        DXSpec_MetalnessTexture(obj.pbr_metallic_roughness, src,
                                Get(override, "metalness", None)))

\* the swizzle attribute when no statement has assigned it
UnsetSwizzle == "<unset>"

\* obj is the GLTF_Material
DXSpec_EmissiveTexture(obj, src, override) ==
  IF Truthy(obj.emissive_texture) \/ Truthy(obj.emissive_factor)
    THEN ApplyOverride(
           [err |-> NoErr,
            uri |-> IF Truthy(obj.emissive_texture)
                      THEN texture_idx2uri(src, obj.emissive_texture.index) ELSE None,
            swizzle |-> IF Truthy(obj.emissive_texture) THEN "rgb" ELSE "111",
            factor |-> Or(obj.emissive_factor, Vec(<<1, 1, 1>>))],
           override, "rgb", "factor")
  ELSE IF override.t = "None"
    THEN [err |-> Raise("ValueError", "Cannot construct emissive texture"),
          uri |-> Unset, swizzle |-> UnsetSwizzle, factor |-> Unset]
  ELSE ApplyOverride([err |-> NoErr, uri |-> Unset, swizzle |-> UnsetSwizzle, factor |-> Unset],
                     override, "rgb", "factor")

(***************************************************************************)
(* Texture keys: <<channels, format, resolution>>, channels a sequence of  *)
(* <<uri, swizzle>>.  A get_texture_key returns [err, key].                *)
(***************************************************************************)
NormalTextureKey(self, resolution) ==
  [err |-> NoErr, key |-> << <<(<<self.uri, self.swizzle>>)>>, "BC5_UNORM", resolution >>]

DiffuseTextureKey(self, resolution) ==
  [err |-> NoErr,
   key |-> << <<(<<self.uri, self.swizzle>>)>>,
              \* self.swizzle[-1] == '1': of "1111", "rgb1" and "rgba" the first two
              IF self.swizzle \in {"1111", "rgb1"} THEN "BC1_UNORM_SRGB" ELSE "BC3_UNORM_SRGB",
              resolution >>]

OrmTextureKey(self, resolution) ==
  [err |-> NoErr,
   key |-> << << <<self.occlusion.uri, self.occlusion.swizzle>>,
                 <<self.roughness.uri, self.roughness.swizzle>>,
                 <<self.metalness.uri, self.metalness.swizzle>> >>,
              "BC7_UNORM", resolution >>]

EmissiveTextureKey(self, resolution) ==
  IF self.uri.t = "unset"
    THEN [err |-> Raise("AttributeError", "uri"), key |-> <<>>]
    ELSE [err |-> NoErr, key |-> << <<(<<self.uri, self.swizzle>>)>>, "BC6H_UF16", resolution >>]

(***************************************************************************)
(* DXSpec_Material(obj, src, override): obj a GLTF_Material, override the  *)
(* merged override dict's item function.  Returns the record and `err`.    *)
(* The pops take distinct keys, so each is read from `override` itself and *)
(* what they leave is `override` without the popped keys.                  *)
(***************************************************************************)
\* the override's 'emissive' key not looked at
HasEmissiveSourceOnly(obj, override) ==
  Truthy(obj.emissive_texture) \/ Truthy(obj.emissive_factor)

\* obj.emissive_texture or obj.emissive_factor or 'emissive' in override
HasEmissive(obj, override) ==
  Truthy(obj.emissive_texture) \/ Truthy(obj.emissive_factor) \/ Has(override, "emissive")

NoEmissive == [err |-> NoErr, uri |-> None, swizzle |-> "", factor |-> None]

\* the attributes, in assignment order (lines 239-260)
MaterialAttrs(obj, src, override) ==
  [name |-> obj.name, src_file |-> src.file,
   blend_mode |-> Get(override, "blend_mode", obj.alpha_mode),
   alpha_cutoff |-> Get(override, "alpha_cutoff", obj.alpha_cutoff),
   double_sided |-> Get(override, "double_sided", obj.double_sided),
   diffuse |-> DXSpec_DiffuseTexture(obj.pbr_metallic_roughness,
                                     Get(override, "blend_mode", obj.alpha_mode), src,
                                     Get(override, "diffuse", None)),
   normal |-> DXSpec_NormalTexture(obj.normal_texture, src, Get(override, "normal", None)),
   orm |-> DXSpec_OcclusionRoughnessMetalness(obj, src, override),
   has_emissive |-> HasEmissive(obj, override),
   emissive |-> IF HasEmissive(obj, override)
                  THEN DXSpec_EmissiveTexture(obj, src, Get(override, "emissive", None))
                  ELSE NoEmissive,
   resolution |-> Get(override, "resolution", Vec(<<-1, -1>>)).v]

MaterialKeys ==
  {"blend_mode", "alpha_cutoff", "double_sided", "diffuse", "normal", "occlusion",
   "roughness", "metalness", "emissive", "resolution"}

\* what every pop of DXSpec_Material and of the ORM constructor leaves
Leftover(override) == [k \in (DOMAIN override) \ MaterialKeys |-> override[k]]

\* the first exception in statement order: the three assertions, the slot
\* constructors, the final leftover check
MaterialErr(self, rest) ==
  IF ~(self.blend_mode \in {Str("OPAQUE"), Str("MASK"), Str("BLEND")})
    THEN Raise("AssertionError", "blend_mode")
  ELSE IF ~(self.alpha_cutoff.t \in {"num", "bool", "None"})
    THEN Raise("AssertionError", "alpha_cutoff")
  ELSE IF self.double_sided.t # "bool" THEN Raise("AssertionError", "double_sided")
  ELSE IF Raised(self.diffuse.err) THEN self.diffuse.err
  ELSE IF Raised(self.normal.err) THEN self.normal.err
  ELSE IF Raised(self.orm.err) THEN self.orm.err
  ELSE IF Raised(self.emissive.err) THEN self.emissive.err
  ELSE IF DOMAIN rest # {} THEN UnknownOverrides(rest)
  ELSE NoErr

WithErr(self, err) == [k \in (DOMAIN self) \cup {"err"} |-> IF k = "err" THEN err ELSE self[k]]

MaterialOf(self, rest) == WithErr(self, MaterialErr(self, rest))

DXSpec_Material(obj, src, override) ==
  MaterialOf(MaterialAttrs(obj, src, override), Leftover(override))

get_diffuse_texture_key(self) == DiffuseTextureKey(self.diffuse, self.resolution)

get_normal_texture_key(self) == NormalTextureKey(self.normal, self.resolution)

get_orm_texture_key(self) == OrmTextureKey(self.orm, self.resolution)

\* key <<>> stands for None (no emissive slot)
get_emissive_texture_key(self) ==
  IF self.has_emissive THEN EmissiveTextureKey(self.emissive, self.resolution)
  ELSE [err |-> NoErr, key |-> <<>>]

(***************************************************************************)
(* Object identity.  The values above are compared by content, while the   *)
(* dicts of the override table are objects that DXSpec_Material, the slot  *)
(* constructors and _modulate pop from.  What follows tracks which dicts   *)
(* of the '*' record the merged override holds as the very same object,    *)
(* and what the pops of one assembly leave of them.                        *)
(***************************************************************************)
\* the argument itself handed back
deepcopy_same_object(v) == [val |-> v, fresh |-> FALSE]

\* copy.deepcopy( v ): an equal value in a new object
deepcopy(v) == [val |-> v, fresh |-> TRUE]

\* the paths into B of the objects that A holds after recursive_overwrite( A, B ):
\* the recursion takes nothing of B[k] itself, `A[k] = copy.deepcopy(v)`
\* takes what deepcopy hands back
RECURSIVE Aliased(_, _)
Aliased(A, B) ==
  UNION {IF k \in DOMAIN A /\ A[k].t = "dict" /\ B[k].t = "dict"
           THEN {<<k>> \o p : p \in Aliased(A[k].d, B[k].d)}
         ELSE IF deepcopy(B[k]).fresh THEN {} ELSE {<<k>>} : k \in DOMAIN B}

\* the slot constructors in call order (lines 251-256 and the ORM constructor)
SlotCalls == <<"diffuse", "normal", "occlusion", "roughness", "metalness", "emissive">>

\* the attribute a slot's override modulates
ModifierOf(slot) ==
  CASE slot = "normal" -> "scale"
    [] slot = "emissive" -> "factor"
    [] OTHER -> "strength"

\* the slot object of an assembled (or failed) material
SlotResult(self, slot) ==
  CASE slot = "diffuse" -> self.diffuse
    [] slot = "normal" -> self.normal
    [] slot = "emissive" -> self.emissive
    [] OTHER -> self.orm[slot]

\* the slot's constructor was called: the assertions passed, no earlier
\* constructor raised, and for emissive the condition of line 255 held
SlotReached(self, slot) ==
  /\ ~(self.err.type = "AssertionError"
       /\ self.err.msg \in {"blend_mode", "alpha_cutoff", "double_sided"})
  /\ \A i, j \in 1..Len(SlotCalls) :
       (SlotCalls[j] = slot /\ i < j) => ~Raised(SlotResult(self, SlotCalls[i]).err)
  /\ slot = "emissive" => self.has_emissive

\* the slot read self.<attr> and popped the modifier: all but the read of
\* an attribute that was never assigned
ModifierPopped(d, attr, res) == Has(d, attr) /\ res.err.type # "AttributeError"

\* a slot's override dict after the constructor's `if override:` block
SlotAfter(d, attr, res) ==
  IF DOMAIN d = {} THEN d
  ELSE IF ModifierPopped(d, attr, res) THEN Pop(Pop(d, "uri"), attr)
  ELSE Pop(d, "uri")

\* a directive after _modulate: modulator.pop( 'op' ), modulator.pop( 'value' )
DirectiveAfter(m) ==
  IF ~Has(m, "op") THEN m
  ELSE IF ~Has(m, "value") THEN Pop(m, "op")
  ELSE Pop(Pop(m, "op"), "value")

\* one slot record of the '*' record after the assembly
GlobalSlotAfter(A, B, self, k) ==
  IF <<k>> \in Aliased(A, B)
    THEN Dict(SlotAfter(B[k].d, ModifierOf(k), SlotResult(self, k)))
  ELSE IF /\ <<k, ModifierOf(k)>> \in Aliased(A, B)
          /\ B[k].d[ModifierOf(k)].t = "dict"
          /\ ModifierPopped(recursive_overwrite(A, B)[k].d, ModifierOf(k), SlotResult(self, k))
    THEN Dict([B[k].d EXCEPT ![ModifierOf(k)] = Dict(DirectiveAfter(@.d))])
  ELSE B[k]

\* the '*' record B after recursive_overwrite( A, B ) and the assembly
\* DXSpec_Material( ..., A ) that gave self
GlobalAfter(A, B, self) ==
  [k \in DOMAIN B |->
     IF B[k].t = "dict" /\ (\E i \in 1..Len(SlotCalls) : SlotCalls[i] = k)
          /\ SlotReached(self, k)
       THEN GlobalSlotAfter(A, B, self, k)
       ELSE B[k]]

\* conv_spec.material_spec_overrides with a '*' record and one material's
OverrideTable(global, mat_name, entry) == ("*" :> Dict(global)) @@ (mat_name :> Dict(entry))

\* conv_spec.material_spec_overrides after parse_materials has popped '*'
\* and the material's record from what line 26 gave it
TableAfter(t, mat_name) ==
  IF deepcopy(t).fresh THEN t ELSE Pop(Pop(t, "*"), mat_name)

(***************************************************************************)
(* DXSpec_TextureKeysContainer.  key2list.<slot> is the DefaultDict's      *)
(* items in insertion order: a sequence of [key, names].  str2key.<slot>   *)
(* is a function from material names to keys.                              *)
(***************************************************************************)
SlotKinds == {"diffuse", "normal", "orm", "emissive"}

\* every name put under an entry of its own, equal keys not looked up
Key2ListAppendNew(k2l, key, mat_name) == Append(k2l, [key |-> key, names |-> <<mat_name>>])

\* key2list[key].append(mat_name)
Key2ListAppend(k2l, key, mat_name) ==
  IF \E i \in 1..Len(k2l) : k2l[i].key = key
    THEN [i \in 1..Len(k2l) |->
            IF k2l[i].key = key THEN [k2l[i] EXCEPT !.names = Append(@, mat_name)]
            ELSE k2l[i]]
    ELSE Append(k2l, [key |-> key, names |-> <<mat_name>>])

\* { v: k for k, vs in key2list.items() for v in vs }; a name listed under
\* several keys keeps the last one
InvertKey2List(k2l) ==
  LET names == UNION {{k2l[i].names[j] : j \in 1..Len(k2l[i].names)} : i \in 1..Len(k2l)}
      last(n) == CHOOSE i \in 1..Len(k2l) :
                   /\ \E j \in 1..Len(k2l[i].names) : k2l[i].names[j] = n
                   /\ \A i2 \in (i+1)..Len(k2l) :
                        \A j \in 1..Len(k2l[i2].names) : k2l[i2].names[j] # n
  IN  [n \in names |-> k2l[last(n)].key]

EmptyKey2List == [diffuse |-> <<>>, normal |-> <<>>, orm |-> <<>>, emissive |-> <<>>]

\* the loop of __init__ over dxspec_material_db.items(), from item i on
RECURSIVE KeysLoop(_, _, _)
KeysLoop(db, i, k2l) ==
  IF i > Len(db) THEN [err |-> NoErr, key2list |-> k2l]
  ELSE
    LET mat_name == db[i].name
        spec_mat == db[i].mat
        diff_key == get_diffuse_texture_key(spec_mat)
        norm_key == get_normal_texture_key(spec_mat)
        orm_key == get_orm_texture_key(spec_mat)
        em_key == get_emissive_texture_key(spec_mat)
        k1 == [k2l EXCEPT !.diffuse = Key2ListAppend(@, diff_key.key, mat_name),
                          !.normal = Key2ListAppend(@, norm_key.key, mat_name),
                          !.orm = Key2ListAppend(@, orm_key.key, mat_name)]
    IN  IF Raised(em_key.err) THEN [err |-> em_key.err, key2list |-> k1]
        ELSE IF em_key.key = <<>> THEN KeysLoop(db, i + 1, k1)
        ELSE KeysLoop(db, i + 1,
                      [k1 EXCEPT !.emissive = Key2ListAppend(@, em_key.key, mat_name)])

\* dxspec_material_db: a sequence of [name, mat], the dict's items in order
DXSpec_TextureKeysContainer(dxspec_material_db) ==
  LET r == KeysLoop(dxspec_material_db, 1, EmptyKey2List)
  IN  [err |-> r.err,
       key2list |-> r.key2list,
       str2key |-> IF Raised(r.err) THEN [s \in SlotKinds |-> <<>>]
                   ELSE [s \in SlotKinds |-> InvertKey2List(r.key2list[s])]]

(***************************************************************************)
(* DXSpec_TextureSpecContainer                                             *)
(***************************************************************************)
\* pathlib.Path(p).stem, tabulated for the image files of the model
Stem(p) ==
  CASE p = "a/wood.png" -> "wood"
    [] p = "b/wood.png" -> "wood"
    [] p = "a/iron.png" -> "iron"

\* returns [err, name]
name_fold(key, default) ==
  LET chans == key[1]
      idx == {i \in 1..Len(chans) : chans[i][1].t # "None"}
      paths == {chans[i][1] : i \in idx}
      first == chans[CHOOSE i \in idx : \A j \in idx : i <= j][1]
  IN  IF idx = {} THEN [err |-> NoErr, name |-> default]
      ELSE IF Cardinality(paths) = 1
        THEN IF first.t = "Path" THEN [err |-> NoErr, name |-> Stem(first.p) \o ".dds"]
             \* a str has no attribute 'stem'
             ELSE [err |-> Raise("AttributeError", "stem"), name |-> ""]
      ELSE [err |-> [Raise("ValueError", "Cannot fold") EXCEPT !.key = key], name |-> ""]

DefaultName(slot) ==
  CASE slot = "diffuse" -> "$DEFAULT_DIFFUSE"
    [] slot = "normal" -> "$DEFAULT_NORMAL"
    [] slot = "orm" -> "$DEFAULT_ORM"
    [] slot = "emissive" -> "$DEFAULT_EMISSIVE"

\* the loop without its two membership checks: a later key takes the name
RECURSIVE SpecLoopUnchecked(_, _, _, _, _)
SpecLoopUnchecked(texture_keys, default, i, texture_outs, texture_outs_inv) ==
  IF i > Len(texture_keys)
    THEN [err |-> NoErr, str2key |-> texture_outs, key2str |-> texture_outs_inv]
  ELSE
    LET key == texture_keys[i].key
        key_name_fold == name_fold(key, default)
    IN  IF Raised(key_name_fold.err)
          THEN [err |-> key_name_fold.err, str2key |-> texture_outs,
                key2str |-> texture_outs_inv]
        ELSE SpecLoopUnchecked(texture_keys, default, i + 1,
                               (key_name_fold.name :> key) @@ texture_outs,
                               (key :> key_name_fold.name) @@ texture_outs_inv)

\* a name that is taken stays with its first key and the loop goes on
RECURSIVE SpecLoopFirstWins(_, _, _, _, _)
SpecLoopFirstWins(texture_keys, default, i, texture_outs, texture_outs_inv) ==
  IF i > Len(texture_keys)
    THEN [err |-> NoErr, str2key |-> texture_outs, key2str |-> texture_outs_inv]
  ELSE
    LET key == texture_keys[i].key
        key_name_fold == name_fold(key, default)
    IN  IF Raised(key_name_fold.err)
          THEN [err |-> key_name_fold.err, str2key |-> texture_outs,
                key2str |-> texture_outs_inv]
        ELSE SpecLoopFirstWins(texture_keys, default, i + 1,
                               texture_outs @@ (key_name_fold.name :> key),
                               (key :> key_name_fold.name) @@ texture_outs_inv)

\* the loop with the name's check placed after the assignment to str2key
RECURSIVE SpecLoopLateCheck(_, _, _, _, _)
SpecLoopLateCheck(texture_keys, default, i, texture_outs, texture_outs_inv) ==
  IF i > Len(texture_keys)
    THEN [err |-> NoErr, str2key |-> texture_outs, key2str |-> texture_outs_inv]
  ELSE
    LET key == texture_keys[i].key
        key_name_fold == name_fold(key, default)
        outs1 == (key_name_fold.name :> key) @@ texture_outs
        inv1 == (key :> key_name_fold.name) @@ texture_outs_inv
    IN  IF Raised(key_name_fold.err)
          THEN [err |-> key_name_fold.err, str2key |-> texture_outs,
                key2str |-> texture_outs_inv]
        ELSE IF key_name_fold.name \in DOMAIN texture_outs
          THEN [err |-> Raise("ValueError", "Outname already exists!!"),
                str2key |-> outs1, key2str |-> texture_outs_inv]
        ELSE SpecLoopLateCheck(texture_keys, default, i + 1, outs1, inv1)

\* the inner loop `for key in texture_keys.keys()` of one slot, from key i on.
\* texture_outs is str2key.<slot> (name -> key), texture_outs_inv is
\* key2str.<slot> (key -> name); both are returned as they are when the loop
\* ends or raises.
RECURSIVE SpecLoop(_, _, _, _, _)
SpecLoop(texture_keys, default, i, texture_outs, texture_outs_inv) ==
  IF i > Len(texture_keys)
    THEN [err |-> NoErr, str2key |-> texture_outs, key2str |-> texture_outs_inv]
  ELSE
    LET key == texture_keys[i].key
        key_name_fold == name_fold(key, default)
        outs1 == (key_name_fold.name :> key) @@ texture_outs
        inv1 == (key :> key_name_fold.name) @@ texture_outs_inv
    IN  IF Raised(key_name_fold.err)
          THEN [err |-> key_name_fold.err, str2key |-> texture_outs,
                key2str |-> texture_outs_inv]
        ELSE IF key_name_fold.name \in DOMAIN texture_outs
          THEN [err |-> Raise("ValueError", "Outname already exists!!"),
                str2key |-> texture_outs, key2str |-> texture_outs_inv]
        ELSE IF key \in DOMAIN texture_outs_inv
          THEN [err |-> Raise("ValueError", "Outname inverse already exists!!"),
                str2key |-> outs1, key2str |-> texture_outs_inv]
        ELSE SpecLoop(texture_keys, default, i + 1, outs1, inv1)

SlotOrder == <<"diffuse", "normal", "orm", "emissive">>

\* the outer loop over the four slots, from slot n on
RECURSIVE SpecSlots(_, _, _)
SpecSlots(key2list, n, acc) ==
  IF n > Len(SlotOrder) THEN acc
  ELSE
    LET s == SlotOrder[n]
        r == SpecLoop(key2list[s], DefaultName(s), 1, <<>>, <<>>)
        acc1 == [err |-> r.err,
                 str2key |-> [acc.str2key EXCEPT ![s] = r.str2key],
                 key2str |-> [acc.key2str EXCEPT ![s] = r.key2str]]
    IN  IF Raised(r.err) THEN acc1 ELSE SpecSlots(key2list, n + 1, acc1)

DXSpec_TextureSpecContainer(dxspec_texture_keys_db) ==
  SpecSlots(dxspec_texture_keys_db.key2list, 1,
            [err |-> NoErr,
             str2key |-> [s \in SlotKinds |-> <<>>],
             key2str |-> [s \in SlotKinds |-> <<>>]])

(***************************************************************************)
(* DXSpec_Mat2TextureContainer: per slot, material name -> output name     *)
(***************************************************************************)
DXSpec_Mat2TextureContainer(dxspec_texture_keys_db, dxspec_texture_outs_db) ==
  LET tex_outs == dxspec_texture_outs_db.key2str
      tex_keys == dxspec_texture_keys_db.str2key
      missing == \E s \in SlotKinds : \E k \in DOMAIN tex_keys[s] :
                   tex_keys[s][k] \notin DOMAIN tex_outs[s]
  IN  IF missing THEN [err |-> Raise("KeyError", "key"), tab |-> [s \in SlotKinds |-> <<>>]]
      ELSE [err |-> NoErr,
            tab |-> [s \in SlotKinds |->
                       [k \in DOMAIN tex_keys[s] |-> tex_outs[s][tex_keys[s][k]]]]]

(***************************************************************************)
(* dxtf_material_utils.py: the texture-compression descriptors             *)
(***************************************************************************)
\* the characters of a swizzle string
SwizzleChars(swizzle) ==
  CASE swizzle = "hh" -> <<"h", "h">>
    [] swizzle = "rg" -> <<"r", "g">>
    [] swizzle = "1111" -> <<"1", "1", "1", "1">>
    [] swizzle = "rgb1" -> <<"r", "g", "b", "1">>
    [] swizzle = "rgba" -> <<"r", "g", "b", "a">>
    [] swizzle = "rgb" -> <<"r", "g", "b">>
    [] swizzle = "111" -> <<"1", "1", "1">>
    [] OTHER -> <<swizzle>>

\* utils.format_get_channels for the formats the keys carry
format_get_channels(f) ==
  CASE f \in {"BC1_UNORM_SRGB", "BC3_UNORM_SRGB", "BC7_UNORM"} -> 4
    [] f = "BC5_UNORM" -> 2
    [] f = "BC6H_UF16" -> 3

\* the channels of `for tex, swizzle in texture_key[0]: for s in swizzle`
RECURSIVE KeyChannels(_, _)
KeyChannels(chans, i) ==
  IF i > Len(chans) THEN <<>>
  ELSE [c \in 1..Len(SwizzleChars(chans[i][2])) |->
          <<IF SwizzleChars(chans[i][2])[c] \in {"r", "g", "b", "a"} THEN chans[i][1] ELSE None,
            SwizzleChars(chans[i][2])[c]>>]
       \o KeyChannels(chans, i + 1)

\* the list padded with ( None, '1' ) up to n channels
RECURSIVE Padded(_, _)
Padded(channels, n) ==
  IF Len(channels) >= n THEN channels ELSE Padded(Append(channels, <<None, "1">>), n)

\* DXTF_Tex2DDS( texture_path, texture_key, out_path, srgb )
DXTF_Tex2DDS(texture_path, texture_key, out_path, srgb) ==
  [err |-> IF Len(KeyChannels(texture_key[1], 1)) > format_get_channels(texture_key[2])
             THEN Raise("ValueError", "Format requires fewer channels") ELSE NoErr,
   format |-> texture_key[2],
   output_path |-> Path(os_path_join(out_path, texture_path)),
   resolution |-> texture_key[3],
   srgb |-> srgb,
   channels |-> Padded(KeyChannels(texture_key[1], 1), format_get_channels(texture_key[2]))]

\* conv_spec.dx_textures_path and conv_spec.tex2dds_settings[slot]['srgb']
dx_textures_path == "out/textures"

tex2dds_srgb(slot) == IF slot = "diffuse" THEN "srgb" ELSE "linear"

\* the names of a dict in one order (the descriptors of a slot are listed
\* in the dict's order; nothing below depends on it)
RECURSIVE Listed(_)
Listed(S) ==
  IF S = {} THEN <<>>
  ELSE LET x == CHOOSE y \in S : TRUE IN <<x>> \o Listed(S \ {x})

\* names with '$' are skipped: these are the four default names
IsDefaultName(k) == \E slot \in SlotKinds : k = DefaultName(slot)

\* the loop over one slot's str2key
SlotDescriptors(texture_outs, slot) ==
  LET names == Listed({k \in DOMAIN texture_outs : ~IsDefaultName(k)})
  IN  [i \in 1..Len(names) |->
         DXTF_Tex2DDS(names[i], texture_outs[names[i]], dx_textures_path, tex2dds_srgb(slot))]

\* DXTF_Tex2DDS.list_from_texture_specs: the descriptors of the four slots
list_from_texture_specs(dxspec_texture_outs_db) ==
  SlotDescriptors(dxspec_texture_outs_db.str2key["diffuse"], "diffuse")
    \o SlotDescriptors(dxspec_texture_outs_db.str2key["normal"], "normal")
    \o SlotDescriptors(dxspec_texture_outs_db.str2key["orm"], "orm")
    \o SlotDescriptors(dxspec_texture_outs_db.str2key["emissive"], "emissive")

(***************************************************************************)
(* Inputs of the model: image files, raw materials, override records.      *)
(***************************************************************************)
MaxSrcs == 2      \* sources of a run
MaxMats == 2      \* materials of one source
MaxMaterials == 2 \* materials of a database built by direct constructor calls
MaxVal == 2       \* numbers range over 0..MaxVal
MaxLen == 2       \* vectors have at most MaxLen elements

Tex(i) == Dict([index |-> Num(i)])

\* raw material dicts without their name
ShapePlain == [k \in {} |-> None]
ShapeWood == [pbrMetallicRoughness |-> Dict([baseColorTexture |-> Tex(0)])]
ShapeWoodB ==
  [pbrMetallicRoughness |-> Dict([baseColorTexture |-> Tex(1)]), alphaMode |-> Str("MASK")]
ShapeFull ==
  [pbrMetallicRoughness |->
     Dict([baseColorTexture |-> Tex(0), metallicRoughnessTexture |-> Tex(2),
           roughnessFactor |-> Num(0), metallicFactor |-> Num(2)]),
   normalTexture |-> Dict([index |-> Num(2), scale |-> Num(2)]),
   occlusionTexture |-> Tex(2),
   emissiveTexture |-> Tex(0),
   alphaMode |-> Str("BLEND")]
ShapePacked ==
  [pbrMetallicRoughness |-> Dict([metallicRoughnessTexture |-> Tex(2)]),
   occlusionTexture |-> Tex(0),
   emissiveFactor |-> Vec(<<0, 0, 0>>)]

Shapes == {ShapePlain, ShapeWood, ShapeWoodB, ShapeFull, ShapePacked}

NamePool == <<"A", "B", "M">>

MatObj(name, shape) == ("name" :> Str(name)) @@ shape

\* source document number k: its textures and images
Source(k, materials) ==
  [file |-> IF k = 1 THEN "s1" ELSE IF k = 2 THEN "s2" ELSE "s3",
   src_dir |-> "",
   materials |-> materials,
   textures |-> <<0, 1, 2>>,
   images |-> IF k = 1 THEN <<"a/wood.png", "b/wood.png", "a/iron.png">>
              ELSE <<"a/iron.png", "a/wood.png", "b/wood.png">>]

\* per-material override entries (item functions)
E0 == [k \in {} |-> None]
ERes == [resolution |-> Vec(<<512, 512>>)]
EUri == [diffuse |-> Dict([uri |-> Str("a/wood.png")])]
EBlend == [blend_mode |-> Str("OPAQUE"), double_sided |-> Bool(TRUE)]
EStr == [diffuse |-> Dict([strength |-> Dict([op |-> Str("mult"), value |-> Num(2)])]),
         normal |-> Dict([scale |-> Num(2)])]
EEm == [emissive |-> Dict([k \in {} |-> None])]
EBogus == [bogus |-> Num(1)]
ESlotBogus == [diffuse |-> Dict([uri |-> Str("a/wood.png"), bogus |-> Num(1)])]
EOrmBogus == [roughness |-> Dict([strength |-> Num(1), extra |-> Num(2)])]
EEmBogus == [emissive |-> Dict([factor |-> Vec(<<1, 1, 1>>), glow |-> Num(1)])]
ENormBogus == [normal |-> Dict([strength |-> Num(1)])]
EBadMod ==
  [diffuse |-> Dict([strength |-> Dict([op |-> Str("add"), value |-> Vec(<<1, 2>>)])])]

EBoth == [double_sided |-> Bool(TRUE), diffuse |-> Dict([strength |-> Vec(<<1, 1, 1, 0>>)])]

\* a replacement uri for every slot but diffuse
EUris ==
  [normal |-> Dict([uri |-> Str("a/iron.png")]),
   occlusion |-> Dict([uri |-> Str("a/iron.png")]),
   roughness |-> Dict([uri |-> Str("a/wood.png")]),
   metalness |-> Dict([uri |-> Str("a/wood.png")]),
   emissive |-> Dict([uri |-> Str("b/wood.png")])]
EBlendUri == [blend_mode |-> Str("BLEND"), diffuse |-> Dict([uri |-> Str("b/wood.png")])]
ECutoff == [alpha_cutoff |-> Num(3)]
EEmFactor == [emissive |-> Dict([factor |-> Vec(<<1, 0, 1>>)])]

EExtra ==
  [diffuse |-> Dict([strength |-> Dict([op |-> Str("add"), value |-> Num(1),
                                         extra |-> Num(2)])])]

OkEntries ==
  {E0, ERes, EUri, EBlend, EStr, EEm, EBoth, EUris, EBlendUri, ECutoff, EEmFactor, EExtra}
BadEntries == {EBogus, ESlotBogus, EOrmBogus, EEmBogus, ENormBogus, EBadMod}
Entries == OkEntries \cup BadEntries

\* global ('*') override entries
GRes == [resolution |-> Vec(<<256, 256>>)]
GDiff == [double_sided |-> Bool(FALSE), diffuse |-> Dict([uri |-> Str("a/iron.png")])]
\* a directive for the diffuse strength of every material
GStr == [diffuse |-> Dict([strength |-> Dict([op |-> Str("mult"), value |-> Num(2)])])]
Globals == {E0, GRes, GDiff, GStr}
\* a record whose 'normal' is no mapping and whose 'diffuse' is one: for
\* recursive_overwrite alone
GMix == [normal |-> Num(1), diffuse |-> Dict([strength |-> Num(1)]), resolution |-> Num(0)]

(***************************************************************************)
(* State.                                                                  *)
(***************************************************************************)
VARIABLES
  pc,                             \* position in main / in the run of a constructor
  gltf_srcs,                      \* main: the sources (loaded documents)
  conv_spec,                      \* conv_spec.material_spec_overrides is its field
  material_spec_overrides,        \* parse_materials' mutable copy
  material_spec_override_global,  \* parse_materials' popped '*' entry
  dxspec_material_db,             \* sequence of [name, mat], in insertion order
  pos,                            \* parse_materials: materials looked at so far
  warnings,                       \* names ezlog.warning was called for
  error,                          \* the exception that ended the run, or NoErr
  dxspec_texture_keys_db,
  dxspec_texture_outs_db,
  dxspec_mat2textures_db,
  written,                        \* write_materials / write_textures have run
  call                            \* the last direct call of a function: arguments and result

vars == <<pc, gltf_srcs, conv_spec, material_spec_overrides, material_spec_override_global,
          dxspec_material_db, pos, warnings, error, dxspec_texture_keys_db,
          dxspec_texture_outs_db, dxspec_mat2textures_db, written, call>>

NotBuilt == [err |-> NoErr, built |-> FALSE]
NoCall == [fn |-> ""]

\* the loop order of parse_materials: <<source number, index i in the source>>
RECURSIVE FlatFrom(_, _)
FlatFrom(srcs, s) ==
  IF s > Len(srcs) THEN <<>>
  ELSE [i \in 1..Len(srcs[s].materials) |-> <<s, i>>] \o FlatFrom(srcs, s + 1)

Flat(srcs) == FlatFrom(srcs, 1)

\* sequences over S of length at most n
RECURSIVE SeqsUpTo(_, _)
SeqsUpTo(S, n) ==
  IF n = 0 THEN {<<>>}
  ELSE LET shorter == SeqsUpTo(S, n - 1)
       IN  shorter \cup {Append(q, x) : q \in shorter, x \in S}

MainNames == {"A", "B"}
MainObjs == {MatObj(n, ShapeWood) : n \in MainNames}
MainMatLists == SeqsUpTo(MainObjs, MaxMats)
MainSrcLists ==
  {[k \in 1..Len(q) |-> Source(k, q[k])] : q \in SeqsUpTo(MainMatLists, MaxSrcs)}

\* override tables of a run: entries for B, for names of no source, and '*'
MainTables ==
  {recursive_overwrite(recursive_overwrite(b, g), w) :
     b \in {E0, [B |-> Dict(ERes)]},
     g \in {E0, [Ghost |-> Dict(E0)], [Ghost |-> Dict(ERes), Ghoul |-> Dict(E0)]},
     w \in {E0, "*" :> Dict(GRes)}}

Fresh ==
  /\ material_spec_overrides = E0
  /\ material_spec_override_global = E0
  /\ dxspec_material_db = <<>>
  /\ pos = 0
  /\ warnings = <<>>
  /\ error = NoErr
  /\ dxspec_texture_keys_db = NotBuilt
  /\ dxspec_texture_outs_db = NotBuilt
  /\ dxspec_mat2textures_db = NotBuilt
  /\ written = FALSE
  /\ call = NoCall

\* main, after the sources are loaded (line 101)
Init ==
  /\ pc = "main"
  /\ gltf_srcs \in MainSrcLists
  /\ conv_spec \in {[material_spec_overrides |-> t] : t \in MainTables}
  /\ Fresh

(***************************************************************************)
(* parse_materials, one action per step.                                   *)
(***************************************************************************)
\* A call GLTF_Material( ... ) with positional arguments `args`.
\* GLTF_Material.__init__( self, obj ) declares one parameter besides self
\* (the dataclass decorator keeps a user-defined __init__), so a call with
\* any other number of arguments raises TypeError before the body runs.
GLTF_Material_new(args) ==
  IF Len(args) # 1
    THEN [err |-> Raise("TypeError", "GLTF_Material.__init__() takes 2 positional arguments"),
          val |-> None]
    ELSE [err |-> NoErr, val |-> GLTF_Material(args[1])]

DbNames(db) == {db[i].name : i \in 1..Len(db)}

\* lines 25-32
parse_materials_begin ==
  /\ pc = "main"
  /\ pc' = "parse_materials"
  /\ material_spec_overrides' = Pop(conv_spec.material_spec_overrides, "*")
  /\ material_spec_override_global' =
       IF Has(conv_spec.material_spec_overrides, "*")
         THEN conv_spec.material_spec_overrides["*"].d ELSE E0
  /\ dxspec_material_db' = <<>>
  /\ pos' = 0
  /\ UNCHANGED <<gltf_srcs, conv_spec, warnings, error, dxspec_texture_keys_db,
                 dxspec_texture_outs_db, dxspec_mat2textures_db, written, call>>

\* one iteration of the inner loop, lines 38-63
parse_materials_loop ==
  /\ pc = "parse_materials"
  /\ pos < Len(Flat(gltf_srcs))
  /\ pos' = pos + 1
  /\ LET at == Flat(gltf_srcs)[pos + 1]
         gltf_src == gltf_srcs[at[1]]
         i == at[2] - 1
         mat_src == gltf_src.materials[at[2]]
         gltf_mat == GLTF_Material_new(<<mat_src, i>>)
     IN  IF Raised(gltf_mat.err)
           THEN /\ error' = gltf_mat.err
                /\ pc' = "raised"
                /\ UNCHANGED <<material_spec_overrides, dxspec_material_db, warnings>>
         ELSE
           LET mat_name == gltf_mat.val.name
           IN  IF mat_name \notin DbNames(dxspec_material_db)
                 THEN
                   LET curr_override ==
                         recursive_overwrite(
                           Get(material_spec_overrides, mat_name, Dict(E0)).d,
                           material_spec_override_global)
                       m == DXSpec_Material(gltf_mat.val, gltf_src, curr_override)
                   IN  /\ material_spec_overrides' = Pop(material_spec_overrides, mat_name)
                       /\ warnings' = warnings
                       /\ IF Raised(m.err)
                            THEN /\ error' =
                                      IF m.err.type = "ValueError"
                                        THEN [Raise("ValueError",
                                                    "Error while creating DXSpec_Material")
                                                EXCEPT !.names = <<mat_name>>,
                                                       !.keys = m.err.keys]
                                        ELSE m.err
                                 /\ pc' = "raised"
                                 /\ dxspec_material_db' = dxspec_material_db
                            ELSE /\ dxspec_material_db' =
                                      Append(dxspec_material_db,
                                             [name |-> mat_name, mat |-> m])
                                 /\ UNCHANGED <<error, pc>>
               ELSE /\ warnings' = Append(warnings, mat_name)
                    /\ UNCHANGED <<material_spec_overrides, dxspec_material_db, error, pc>>
  /\ UNCHANGED <<gltf_srcs, conv_spec, material_spec_override_global,
                 dxspec_texture_keys_db, dxspec_texture_outs_db, dxspec_mat2textures_db,
                 written, call>>

\* lines 65-72
parse_materials_end ==
  /\ pc = "parse_materials"
  /\ pos = Len(Flat(gltf_srcs))
  /\ IF DOMAIN material_spec_overrides # {}
       THEN /\ error' = [Raise("ValueError", "Not all material spec overrides consumed!")
                           EXCEPT !.keys = DOMAIN material_spec_overrides]
            /\ pc' = "raised"
       ELSE /\ error' = error
            /\ pc' = "parsed"
  /\ UNCHANGED <<gltf_srcs, conv_spec, material_spec_overrides,
                 material_spec_override_global, dxspec_material_db, pos, warnings,
                 dxspec_texture_keys_db, dxspec_texture_outs_db, dxspec_mat2textures_db,
                 written, call>>

(***************************************************************************)
(* main, lines 108-129                                                     *)
(***************************************************************************)
Built(r) == [err |-> r.err, built |-> TRUE, v |-> r]

main_texture_keys ==
  /\ pc = "parsed"
  /\ LET r == DXSpec_TextureKeysContainer(dxspec_material_db)
     IN  /\ dxspec_texture_keys_db' = Built(r)
         /\ error' = r.err
         /\ pc' = IF Raised(r.err) THEN "raised" ELSE "keys"
  /\ UNCHANGED <<gltf_srcs, conv_spec, material_spec_overrides,
                 material_spec_override_global, dxspec_material_db, pos, warnings,
                 dxspec_texture_outs_db, dxspec_mat2textures_db, written, call>>

main_texture_outs ==
  /\ pc = "keys"
  /\ LET r == DXSpec_TextureSpecContainer(dxspec_texture_keys_db.v)
     IN  /\ dxspec_texture_outs_db' = Built(r)
         /\ error' = r.err
         /\ pc' = IF Raised(r.err) THEN "raised" ELSE "outs"
  /\ UNCHANGED <<gltf_srcs, conv_spec, material_spec_overrides,
                 material_spec_override_global, dxspec_material_db, pos, warnings,
                 dxspec_texture_keys_db, dxspec_mat2textures_db, written, call>>

main_mat2textures ==
  /\ pc = "outs"
  /\ LET r == DXSpec_Mat2TextureContainer(dxspec_texture_keys_db.v, dxspec_texture_outs_db.v)
     IN  /\ dxspec_mat2textures_db' = Built(r)
         /\ error' = r.err
         /\ pc' = IF Raised(r.err) THEN "raised" ELSE "mat2textures"
  /\ UNCHANGED <<gltf_srcs, conv_spec, material_spec_overrides,
                 material_spec_override_global, dxspec_material_db, pos, warnings,
                 dxspec_texture_keys_db, dxspec_texture_outs_db, written, call>>

\* the files written as soon as the keys are grouped
main_write_early ==
  /\ pc = "keys"
  /\ written' = TRUE
  /\ pc' = "done"
  /\ UNCHANGED <<gltf_srcs, conv_spec, material_spec_overrides,
                 material_spec_override_global, dxspec_material_db, pos, warnings, error,
                 dxspec_texture_keys_db, dxspec_texture_outs_db, dxspec_mat2textures_db,
                 call>>

\* lines 118-129: the output files are written
main_write ==
  /\ pc = "mat2textures"
  /\ written' = TRUE
  /\ pc' = "done"
  /\ UNCHANGED <<gltf_srcs, conv_spec, material_spec_overrides,
                 material_spec_override_global, dxspec_material_db, pos, warnings, error,
                 dxspec_texture_keys_db, dxspec_texture_outs_db, dxspec_mat2textures_db,
                 call>>

Next ==
  \/ parse_materials_begin
  \/ parse_materials_loop
  \/ parse_materials_end
  \/ main_texture_keys
  \/ main_texture_outs
  \/ main_mat2textures
  \/ main_write

Spec == Init /\ [][Next]_vars

(***************************************************************************)
(* The functions and constructors applied directly to inputs drawn from    *)
(* bounded sets.                                                           *)
(***************************************************************************)
Numbers == 0..MaxVal
Vectors == {Vec(q) : q \in SeqsUpTo(Numbers, MaxLen)}
Scalars == {Num(n) : n \in Numbers}
Originals == Scalars \cup Vectors \cup {None, Bool(TRUE), Str("x")}
Directives ==
  {Dict([op |-> o, value |-> v]) :
     o \in {Str("add"), Str("mult"), Str("sub")}, v \in Scalars \cup Vectors \cup {Str("x")}}
  \cup {Dict([op |-> Str("add"), value |-> Num(1), extra |-> Num(2)]),
        Dict([op |-> Str("add")]), Dict([value |-> Num(1)])}
Modulators == Originals \cup Directives

\* records recursive_overwrite is applied to
OverwritePool == Entries \cup Globals \cup {GMix}

\* the material database is built from these [shape, override] pairs
DbCases ==
  {[shape |-> sh, override |-> e] : sh \in Shapes, e \in {E0, ERes}}
  \cup {[shape |-> ShapeWood, override |-> EUri],
        [shape |-> ShapeWoodB, override |-> EBlend],
        [shape |-> ShapePlain, override |-> EEm],
        [shape |-> ShapeWood, override |-> ESlotBogus],
        [shape |-> ShapePlain, override |-> EBadMod]}

UnitInit ==
  /\ pc = "unit"
  /\ gltf_srcs = <<>>
  /\ conv_spec = [material_spec_overrides |-> E0]
  /\ Fresh

call_modulate ==
  /\ pc = "unit"
  /\ call = NoCall
  /\ \E original \in Originals, modulator \in Modulators :
       call' = [fn |-> "modulate", original |-> original, modulator |-> modulator,
                out |-> modulate(original, modulator)]
  /\ UNCHANGED <<pc, gltf_srcs, conv_spec, material_spec_overrides,
                 material_spec_override_global, dxspec_material_db, pos, warnings, error,
                 dxspec_texture_keys_db, dxspec_texture_outs_db, dxspec_mat2textures_db,
                 written>>

call_recursive_overwrite ==
  /\ pc = "unit"
  /\ call = NoCall
  /\ \E A \in OverwritePool, B \in OverwritePool :
       call' = [fn |-> "recursive_overwrite", A |-> A, B |-> B,
                out |-> recursive_overwrite(A, B)]
  /\ UNCHANGED <<pc, gltf_srcs, conv_spec, material_spec_overrides,
                 material_spec_override_global, dxspec_material_db, pos, warnings, error,
                 dxspec_texture_keys_db, dxspec_texture_outs_db, dxspec_mat2textures_db,
                 written>>

\* DXSpec_Material( gltf_mat, gltf_src, curr_override ) with curr_override
\* merged as in parse_materials, lines 47-54
call_DXSpec_Material ==
  /\ pc = "unit"
  /\ call = NoCall
  /\ \E sh \in Shapes, e \in Entries, g \in Globals :
       call' = [fn |-> "DXSpec_Material",
                obj |-> GLTF_Material(MatObj("A", sh)),
                entry |-> e, global |-> g,
                override |-> recursive_overwrite(e, g),
                out |-> DXSpec_Material(GLTF_Material(MatObj("A", sh)), Source(1, <<>>),
                                        recursive_overwrite(e, g)),
                global_after |->
                  GlobalAfter(e, g, DXSpec_Material(GLTF_Material(MatObj("A", sh)),
                                                    Source(1, <<>>), recursive_overwrite(e, g))),
                table |-> OverrideTable(g, "A", e),
                table_after |-> TableAfter(OverrideTable(g, "A", e), "A")]
  /\ UNCHANGED <<pc, gltf_srcs, conv_spec, material_spec_overrides,
                 material_spec_override_global, dxspec_material_db, pos, warnings, error,
                 dxspec_texture_keys_db, dxspec_texture_outs_db, dxspec_mat2textures_db,
                 written>>

DbAppend(db, m) == Append(db, [name |-> m.name, mat |-> m])

\* except ValueError as e: raise ValueError( ... ) from e; any other
\* exception leaves parse_materials as it is
Reraised(err, mat_name) ==
  IF err.type = "ValueError"
    THEN [Raise("ValueError", "Error while creating DXSpec_Material")
            EXCEPT !.names = <<mat_name>>, !.keys = err.keys]
    ELSE err

\* lines 52-56 for a name not in the database:
\* dxspec_material_db[mat_name] = DXSpec_Material( ... ), or the exception
\* of the constructor ends the run
db_insert ==
  /\ pc \in {"unit", "parsed"}
  /\ call = NoCall
  /\ Len(dxspec_material_db) < MaxMaterials
  /\ \E n \in 1..Len(NamePool), c \in DbCases :
       /\ NamePool[n] \notin DbNames(dxspec_material_db)
       /\ LET m == DXSpec_Material(GLTF_Material(MatObj(NamePool[n], c.shape)),
                                   Source(1, <<>>), c.override)
          IN  IF Raised(m.err)
                THEN /\ error' = Reraised(m.err, NamePool[n])
                     /\ pc' = "raised"
                     /\ dxspec_material_db' = dxspec_material_db
                ELSE /\ error' = error
                     /\ pc' = "parsed"
                     /\ dxspec_material_db' = DbAppend(dxspec_material_db, m)
  /\ call' = NoCall
  /\ UNCHANGED <<gltf_srcs, conv_spec, material_spec_overrides,
                 material_spec_override_global, pos, warnings,
                 dxspec_texture_keys_db, dxspec_texture_outs_db, dxspec_mat2textures_db,
                 written>>

UnitNext ==
  \/ call_modulate
  \/ call_recursive_overwrite
  \/ call_DXSpec_Material
  \/ db_insert
  \/ main_texture_keys
  \/ main_texture_outs
  \/ main_mat2textures
  \/ main_write

UnitSpec == UnitInit /\ [][UnitNext]_vars

(***************************************************************************)
(* Properties.                                                             *)
(***************************************************************************)
\* `out` is A overlaid with B: on a path where both hold a non-mapping (or
\* only one holds a mapping) B's value stands, two mappings are merged key
\* by key, keys of A alone are kept, keys of B alone are added
RECURSIVE Overlaid(_, _, _)
Overlaid(A, B, out) ==
  /\ DOMAIN out = (DOMAIN A) \cup (DOMAIN B)
  /\ \A k \in DOMAIN out :
       IF k \notin DOMAIN B THEN out[k] = A[k]
       ELSE IF k \notin DOMAIN A THEN out[k] = B[k]
       ELSE IF A[k].t = "dict" /\ B[k].t = "dict"
         THEN out[k].t = "dict" /\ Overlaid(A[k].d, B[k].d, out[k].d)
       ELSE out[k] = B[k]

\* C9: the override a material is assembled with is the per-material entry
\* overlaid with the global '*' entry: the global value wins where both hold
\* a non-mapping, mappings are merged key by key, keys of the entry alone
\* are kept and keys of the global entry alone are added.
C9_MergedOverride ==
  /\ call.fn = "recursive_overwrite" => Overlaid(call.A, call.B, call.out)
  /\ call.fn = "DXSpec_Material" => Overlaid(call.entry, call.global, call.override)

\* a material whose entry and global entry both hold a 'diffuse' mapping,
\* with different keys, and disagree on 'double_sided'
C9_Witness ==
  /\ call.fn = "DXSpec_Material"
  /\ call.entry = EBoth
  /\ call.global = GDiff
  /\ DOMAIN call.override["diffuse"].d = {"strength", "uri"}
  /\ call.override["double_sided"] = Bool(FALSE)

Expected(op, a, b) == IF op = "add" THEN a + b ELSE a * b

IsDirective(m) ==
  /\ m.t = "dict"
  /\ DOMAIN m.d = {"op", "value"}
  /\ m.d["op"] \in {Str("add"), Str("mult")}
  /\ m.d["value"].t \in {"num", "vec"}

\* C10: modulate with a directive {op: add|mult, value} keeps the shape of
\* the original: scalar by scalar is the scalar `original op value`, a vector
\* by a scalar has op applied to every element, a vector by a vector of the
\* same length is the elementwise result, the result is a scalar iff the
\* original is one and a vector iff the original is one, and neither
\* assertion of modulate fails.
C10_ModulateKeepsShape ==
  (call.fn = "modulate" /\ IsDirective(call.modulator)) =>
    LET o == call.original
        op == call.modulator.d["op"].s
        v == call.modulator.d["value"]
        out == call.out
    IN  /\ out.err.type # "AssertionError"
        /\ ~Raised(out.err) =>
             /\ (out.val.t = "num") <=> (o.t \in {"num", "bool"})
             /\ (out.val.t = "vec") <=> (o.t = "vec")
        /\ (o.t = "num" /\ v.t = "num") =>
             /\ ~Raised(out.err)
             /\ out.val = Num(Expected(op, o.n, v.n))
        /\ (o.t = "vec" /\ v.t = "num") =>
             /\ ~Raised(out.err)
             /\ out.val = Vec([i \in 1..Len(o.v) |-> Expected(op, o.v[i], v.n)])
        /\ (o.t = "vec" /\ v.t = "vec" /\ Len(o.v) = Len(v.v)) =>
             /\ ~Raised(out.err)
             /\ out.val = Vec([i \in 1..Len(o.v) |-> Expected(op, o.v[i], v.v[i])])

C10_Witness ==
  /\ call.fn = "modulate"
  /\ call.original = Vec(<<1, 2>>)
  /\ call.modulator = Dict([op |-> Str("mult"), value |-> Vec(<<2, 0>>)])
  /\ call.out = [err |-> NoErr, val |-> Vec(<<2, 0>>)]

\* the keys of a slot in key2list, in insertion order
SlotKeys(s) ==
  [i \in 1..Len(dxspec_texture_keys_db.v.key2list[s]) |->
     dxspec_texture_keys_db.v.key2list[s][i].key]

Range(f) == {f[x] : x \in DOMAIN f}

\* C3: when DXSpec_TextureSpecContainer is constructed without error, then in
\* every slot kind key2str and str2key are mutually inverse: key2str is
\* injective, its domain is the set of the slot's keys in key2list, and
\* str2key[key2str[k]] = k for each of them.
C3_OutsBijective ==
  (dxspec_texture_outs_db.built /\ ~Raised(dxspec_texture_outs_db.err)) =>
    \A s \in SlotKinds :
      LET key2str == dxspec_texture_outs_db.v.key2str[s]
          str2key == dxspec_texture_outs_db.v.str2key[s]
      IN  /\ DOMAIN key2str = Range(SlotKeys(s))
          /\ \A k1, k2 \in DOMAIN key2str : key2str[k1] = key2str[k2] => k1 = k2
          /\ DOMAIN str2key = Range(key2str)
          /\ \A k \in DOMAIN key2str : str2key[key2str[k]] = k
          /\ \A n \in DOMAIN str2key : key2str[str2key[n]] = n

\* two materials with different diffuse keys and different names for them
C3_Witness ==
  /\ dxspec_texture_outs_db.built
  /\ ~Raised(dxspec_texture_outs_db.err)
  /\ Len(dxspec_material_db) = 2
  /\ Cardinality(DOMAIN dxspec_texture_outs_db.v.key2str["diffuse"]) = 2
  /\ Cardinality(DOMAIN dxspec_texture_outs_db.v.str2key["diffuse"]) = 2

\* keys i < j of slot s fold, without error, to one name
SameName(s, i, j) ==
  /\ i < j
  /\ ~Raised(name_fold(SlotKeys(s)[i], DefaultName(s)).err)
  /\ ~Raised(name_fold(SlotKeys(s)[j], DefaultName(s)).err)
  /\ name_fold(SlotKeys(s)[i], DefaultName(s)).name
       = name_fold(SlotKeys(s)[j], DefaultName(s)).name

\* C4: if two different keys of one slot kind fold to the same output name,
\* the construction of DXSpec_TextureSpecContainer raises no later than at
\* the second of them (that key and the keys after it are never
\* registered), and the name keeps the key it was first given.
C4_CollisionRaises ==
  dxspec_texture_outs_db.built =>
    \A s \in SlotKinds : \A i, j \in 1..Len(SlotKeys(s)) :
      SameName(s, i, j) =>
        LET name == name_fold(SlotKeys(s)[i], DefaultName(s)).name
            key2str == dxspec_texture_outs_db.v.key2str[s]
            str2key == dxspec_texture_outs_db.v.str2key[s]
        IN  /\ Raised(dxspec_texture_outs_db.err)
            /\ \A m \in j..Len(SlotKeys(s)) : SlotKeys(s)[m] \notin DOMAIN key2str
            /\ name \in DOMAIN str2key =>
                 \E f \in 1..i : /\ str2key[name] = SlotKeys(s)[f]
                                 /\ \A e \in 1..(f - 1) : ~SameName(s, e, f)

\* two diffuse keys that fold to wood.dds; the first one keeps the name
C4_Witness ==
  /\ dxspec_texture_outs_db.built
  /\ dxspec_texture_outs_db.err.msg = "Outname already exists!!"
  /\ Len(SlotKeys("diffuse")) = 2
  /\ SameName("diffuse", 1, 2)
  /\ dxspec_texture_outs_db.v.str2key["diffuse"] = ("wood.dds" :> SlotKeys("diffuse")[1])

\* the distinct path strings a key references, whatever the type of the
\* value that holds them
PathStrings(key) ==
  {IF key[1][i][1].t = "Path" THEN key[1][i][1].p ELSE key[1][i][1].s :
     i \in {c \in 1..Len(key[1]) : key[1][c][1].t \in {"Path", "str"}}}

\* C5: name_fold gives a key without a referenced path the slot's default
\* name, a key with one distinct referenced path that path's stem plus
\* '.dds', and raises 'Cannot fold' for a key with more than one; for every
\* key built from the source's texture lookup or from an override 'uri'.
C5_NameFoldContract ==
  (dxspec_texture_keys_db.built /\ ~Raised(dxspec_texture_keys_db.err)) =>
    \A s \in SlotKinds : \A i \in 1..Len(SlotKeys(s)) :
      LET key == SlotKeys(s)[i]
          r == name_fold(key, DefaultName(s))
          paths == PathStrings(key)
      IN  /\ paths = {} => r = [err |-> NoErr, name |-> DefaultName(s)]
          /\ Cardinality(paths) = 1 =>
               r = [err |-> NoErr, name |-> Stem(CHOOSE q \in paths : TRUE) \o ".dds"]
          /\ Cardinality(paths) > 1 => r.err.msg = "Cannot fold"

\* C6: a merged override with a top-level key that DXSpec_Material does not
\* know, or with a non-empty slot record holding a key other than 'uri' and
\* the slot's strength / scale / factor, makes the constructor raise.
SlotAttr(slot) ==
  CASE slot = "normal" -> "scale"
    [] slot = "emissive" -> "factor"
    [] OTHER -> "strength"

UnknownKey(override) ==
  \/ \E k \in DOMAIN override : k \notin MaterialKeys
  \/ \E slot \in {"diffuse", "normal", "occlusion", "roughness", "metalness", "emissive"} :
       /\ slot \in DOMAIN override
       /\ override[slot].t = "dict"
       /\ \E k \in DOMAIN override[slot].d : k \notin {"uri", SlotAttr(slot)}

C6_UnknownKeyRaises ==
  (call.fn = "DXSpec_Material" /\ UnknownKey(call.override)) => Raised(call.out.err)

\* an unknown key beside 'uri' in the diffuse record, named by the error
C6_Witness ==
  /\ call.fn = "DXSpec_Material"
  /\ call.entry = ESlotBogus
  /\ call.global = E0
  /\ call.out.err.type = "ValueError"
  /\ call.out.err.keys = {"bogus"}

\* the raw material at position p of the loop order, and its source
RawAt(p) == gltf_srcs[Flat(gltf_srcs)[p][1]].materials[Flat(gltf_srcs)[p][2]]

SrcAt(p) == gltf_srcs[Flat(gltf_srcs)[p][1]]

NameAt(p) == RawAt(p)["name"].s

Positions == 1..Len(Flat(gltf_srcs))

\* parse_materials has ended with an exception
ParseFailed == pc = "raised" /\ ~dxspec_texture_keys_db.built

\* C1: two materials A and B of one source, with distinct names, the same
\* diffuse texture, the same blend mode and no override: the run from
\* parse_materials to DXSpec_Mat2TextureContainer raises nothing, and it ends
\* with one diffuse key listing both names and one diffuse output name for
\* both.
C1_SharedDiffuseSucceeds ==
  (/\ conv_spec.material_spec_overrides = E0
   /\ Len(gltf_srcs) = 1
   /\ Len(Flat(gltf_srcs)) = 2
   /\ NameAt(1) = "A" /\ NameAt(2) = "B"
   /\ RawAt(1)["pbrMetallicRoughness"] = RawAt(2)["pbrMetallicRoughness"]
   /\ "alphaMode" \notin (DOMAIN RawAt(1)) \cup (DOMAIN RawAt(2)))
  => /\ pc # "raised"
     /\ dxspec_mat2textures_db.built =>
          /\ Len(dxspec_texture_keys_db.v.key2list["diffuse"]) = 1
          /\ dxspec_texture_keys_db.v.key2list["diffuse"][1].names = <<"A", "B">>
          /\ dxspec_mat2textures_db.v.tab["diffuse"]["A"]
               = dxspec_mat2textures_db.v.tab["diffuse"]["B"]

\* the database holds A and B, which have the same diffuse file and differ
\* in their resolution alone: B's was overridden
SplitByResolution ==
  /\ Len(dxspec_material_db) = 2
  /\ dxspec_material_db[1].name = "A" /\ dxspec_material_db[2].name = "B"
  /\ dxspec_material_db[1].mat.diffuse = dxspec_material_db[2].mat.diffuse
  /\ dxspec_material_db[1].mat.diffuse.uri.t = "Path"
  /\ dxspec_material_db[1].mat.resolution = <<-1, -1>>
  /\ dxspec_material_db[2].mat.resolution # <<-1, -1>>

\* C2: A and B share a diffuse texture file and only B's resolution is
\* overridden: they get two diffuse keys, the containers are built without
\* error and the two diffuse output names differ.
C2_ResolutionSplitsNames ==
  SplitByResolution =>
    /\ dxspec_texture_keys_db.built =>
         dxspec_texture_keys_db.v.str2key["diffuse"]["A"]
           # dxspec_texture_keys_db.v.str2key["diffuse"]["B"]
    /\ ~Raised(error)
    /\ dxspec_mat2textures_db.built =>
         dxspec_mat2textures_db.v.tab["diffuse"]["A"]
           # dxspec_mat2textures_db.v.tab["diffuse"]["B"]

\* the named override entries whose material occurs in no source
Unconsumed ==
  ((DOMAIN conv_spec.material_spec_overrides) \ {"*"}) \ {NameAt(p) : p \in Positions}

\* C7: with named override entries for materials of no source,
\* parse_materials fails with one error listing each of these names, raised
\* after every material of every source was processed; without such
\* entries (no assembly fails for the override records of these runs)
\* parse_materials returns.
C7_UnconsumedReported ==
  /\ (ParseFailed /\ Unconsumed # {}) =>
       /\ error.msg = "Not all material spec overrides consumed!"
       /\ error.keys = Unconsumed
       /\ pos = Len(Flat(gltf_srcs))
  /\ Unconsumed = {} => ~ParseFailed

\* position p repeats the name of an earlier position
Repeats(p) == \E e \in 1..(p - 1) : NameAt(e) = NameAt(p)

FirstOf(name) == CHOOSE f \in Positions : NameAt(f) = name /\ ~Repeats(f)

\* C8: when a name occurs more than once, the record stored under it is
\* built from its first occurrence, and each later occurrence is skipped
\* with a warning: it raises nothing and leaves the record as it is.
C8_FirstSeenWins ==
  (\E p \in Positions : Repeats(p)) =>
    \A p \in 1..pos :
      /\ \E r \in 1..Len(dxspec_material_db) :
           /\ dxspec_material_db[r].name = NameAt(p)
           /\ dxspec_material_db[r].mat.src_file = SrcAt(FirstOf(NameAt(p))).file
      /\ Repeats(p) =>
           /\ \E w \in 1..Len(warnings) : warnings[w] = NameAt(p)
           /\ ~(ParseFailed /\ pos = p)

\* a dict with 'op' and 'value', whatever they hold
HasOpAndValue(m) == m.t = "dict" /\ {"op", "value"} \subseteq DOMAIN m.d

Numeric(x) == x.t \in {"num", "bool", "vec"}

\* C11: modulate with a directive raises, and returns nothing, when the
\* original is None, when the original is a scalar and the value a vector,
\* when both are vectors of different lengths, when op is neither add nor
\* mult, and when the original or the value is not numeric.
C11_DirectiveErrors ==
  (call.fn = "modulate" /\ HasOpAndValue(call.modulator)) =>
    LET o == call.original
        op == call.modulator.d["op"]
        v == call.modulator.d["value"]
    IN  (\/ o.t = "None"
         \/ o.t \in {"num", "bool"} /\ v.t = "vec"
         \/ o.t = "vec" /\ v.t = "vec" /\ Len(o.v) # Len(v.v)
         \/ op \notin {Str("add"), Str("mult")}
         \/ ~Numeric(o)
         \/ ~Numeric(v))
        => /\ call.out.err.type = "ValueError"
           /\ call.out.val = None

\* a 2-vector by a 1-vector
C11_Witness ==
  /\ call.fn = "modulate"
  /\ call.original = Vec(<<1, 2>>)
  /\ call.modulator = Dict([op |-> Str("add"), value |-> Vec(<<1>>)])
  /\ call.out.err.msg = "must be equal length"

\* C12: with a modifier that is no directive, modulate returns the modifier
\* for every original (scalar, vector or None) and every shape of the
\* modifier, and never fails.
C12_LiteralPassThrough ==
  (call.fn = "modulate" /\ call.modulator.t # "dict") =>
    call.out = [err |-> NoErr, val |-> call.modulator]

\* DXSpec_Material was called and returned a record
Assembled == call.fn = "DXSpec_Material" /\ ~Raised(call.out.err)

\* C13: in every record DXSpec_Material returns, alpha_cutoff is not None
\* only if blend_mode is MASK, for every source alpha mode and every
\* override of blend_mode and alpha_cutoff.
C13_CutoffOnlyWithMask ==
  Assembled => (call.out.alpha_cutoff # None => call.out.blend_mode = Str("MASK"))

\* C16: without an override of roughness and metalness, a factor the
\* metallic-roughness block declares (0 included) is the sub-slot's
\* strength, with or without a texture; the defaults (roughness 1, metalness
\* 0 without and 1 with a texture) stand for an undeclared factor alone; the
\* swizzle is 'g' / 'b' with a texture and '1' without.
C16_DeclaredFactorIsStrength ==
  (/\ Assembled
   /\ call.obj.pbr_metallic_roughness # None
   /\ {"roughness", "metalness"} \cap DOMAIN call.override = {})
  => LET pbr == call.obj.pbr_metallic_roughness
         tex == pbr.metallic_roughness_texture # None
         r == call.out.orm.roughness
         m == call.out.orm.metalness
     IN  /\ r.strength = IF pbr.roughness_factor # None THEN pbr.roughness_factor ELSE Num(1)
         /\ m.strength = IF pbr.metallic_factor # None THEN pbr.metallic_factor
                         ELSE IF tex THEN Num(1) ELSE Num(0)
         /\ r.swizzle = IF tex THEN "g" ELSE "1"
         /\ m.swizzle = IF tex THEN "b" ELSE "1"

\* the names of a slot's key2list entries
Grouped(s) ==
  UNION {{dxspec_texture_keys_db.v.key2list[s][i].names[j] :
            j \in 1..Len(dxspec_texture_keys_db.v.key2list[s][i].names)} :
         i \in 1..Len(dxspec_texture_keys_db.v.key2list[s])}

KeysBuilt == dxspec_texture_keys_db.built /\ ~Raised(dxspec_texture_keys_db.err)

TableBuilt == dxspec_mat2textures_db.built /\ ~Raised(dxspec_mat2textures_db.err)

\* C17: a record has an emissive slot iff the source material declares an
\* emissive texture or an emissive factor or the merged override holds the
\* key 'emissive'; a record without one has no emissive key, is in no
\* emissive group of key2list and has no emissive entry in the table.
C17_EmissiveSlotIff ==
  /\ Assembled =>
       /\ call.out.has_emissive <=>
            \/ call.obj.emissive_texture # None
            \/ call.obj.emissive_factor # None
            \/ "emissive" \in DOMAIN call.override
       /\ ~call.out.has_emissive => get_emissive_texture_key(call.out).key = <<>>
  /\ \A r \in 1..Len(dxspec_material_db) :
       LET name == dxspec_material_db[r].name
           has == dxspec_material_db[r].mat.has_emissive
       IN  /\ KeysBuilt => (name \in Grouped("emissive") <=> has)
           /\ TableBuilt => (name \in DOMAIN dxspec_mat2textures_db.v.tab["emissive"] <=> has)

\* a material with an emissive slot and one without, through to the table
C17_Witness ==
  /\ TableBuilt
  /\ Len(dxspec_material_db) = 2
  /\ dxspec_material_db[1].mat.has_emissive
  /\ ~dxspec_material_db[2].mat.has_emissive
  /\ DOMAIN dxspec_mat2textures_db.v.tab["emissive"] = {dxspec_material_db[1].name}
  /\ DOMAIN dxspec_mat2textures_db.v.tab["diffuse"]
       = {dxspec_material_db[1].name, dxspec_material_db[2].name}

\* C18: a source without emissive texture and factor and an override that
\* names 'emissive' with an empty record, 'uri' alone or 'factor' alone: the
\* slot is constructed with every attribute assigned (no path, swizzle
\* '111' and factor (1, 1, 1) before the override is applied) and a key can
\* be derived from it.
C18_OverrideOnlyEmissiveDefined ==
  (/\ call.fn = "DXSpec_Material"
   /\ call.obj.emissive_texture = None
   /\ call.obj.emissive_factor = None
   /\ DOMAIN call.override = {"emissive"}
   /\ DOMAIN call.override["emissive"].d \in {{}, {"uri"}, {"factor"}})
  => LET o == call.override["emissive"].d
         e == call.out.emissive
     IN  /\ ~Raised(call.out.err)
         /\ e.uri = IF Has(o, "uri") THEN o["uri"] ELSE None
         /\ e.swizzle = IF Has(o, "uri") THEN "rgb" ELSE "111"
         /\ e.factor = IF Has(o, "factor") THEN o["factor"] ELSE Vec(<<1, 1, 1>>)
         /\ ~Raised(get_emissive_texture_key(call.out).err)

\* the swizzle of a slot that has a texture
TexSwizzle(slot) ==
  CASE slot = "normal" -> "rg"
    [] slot = "occlusion" -> "r"
    [] slot = "roughness" -> "g"
    [] slot = "metalness" -> "b"
    [] slot = "emissive" -> "rgb"

SlotOf(m, slot) ==
  CASE slot = "normal" -> m.normal
    [] slot = "occlusion" -> m.orm.occlusion
    [] slot = "roughness" -> m.orm.roughness
    [] slot = "metalness" -> m.orm.metalness
    [] slot = "emissive" -> m.emissive

\* C19: a slot override with 'uri' replaces the slot's path and sets the
\* slot's has-texture swizzle (normal 'rg', occlusion 'r', roughness 'g',
\* metalness 'b', emissive 'rgb'); a record with a diffuse path, from the
\* source or the override, has the diffuse swizzle 'rgb1' iff its final
\* blend_mode is OPAQUE and 'rgba' otherwise.
C19_UriForcesSwizzle ==
  Assembled =>
    /\ \A slot \in {"normal", "occlusion", "roughness", "metalness", "emissive"} :
         (slot \in DOMAIN call.override /\ Has(call.override[slot].d, "uri")) =>
           /\ SlotOf(call.out, slot).uri = call.override[slot].d["uri"]
           /\ SlotOf(call.out, slot).swizzle = TexSwizzle(slot)
    /\ ("diffuse" \in DOMAIN call.override /\ Has(call.override["diffuse"].d, "uri")) =>
         call.out.diffuse.uri = call.override["diffuse"].d["uri"]
    /\ call.out.diffuse.uri # None =>
         call.out.diffuse.swizzle
           = IF call.out.blend_mode = Str("OPAQUE") THEN "rgb1" ELSE "rgba"

\* every slot but diffuse gets a uri, on a MASK material with a diffuse texture
C19_Witness ==
  /\ Assembled
  /\ call.entry = EUris
  /\ call.global = E0
  /\ call.out.blend_mode = Str("MASK")
  /\ call.out.diffuse.swizzle = "rgba"
  /\ call.out.normal.swizzle = "rg"
  /\ call.out.orm.metalness.uri = Str("a/wood.png")
  /\ call.out.emissive.swizzle = "rgb"

OutsBuilt == dxspec_texture_outs_db.built /\ ~Raised(dxspec_texture_outs_db.err)

\* C14: when the assembly of a material, the leftover-override check, the
\* grouping of keys or the folding of names fails, the run ends there: no
\* later stage is run on a partial result and nothing is written; the
\* output files are written only after parse_materials and the three
\* containers have completed.
C14_AllOrNothing ==
  /\ written => (KeysBuilt /\ OutsBuilt /\ TableBuilt /\ ~Raised(error))
  /\ Raised(error) => (pc = "raised" /\ ~written)
  /\ (Raised(error) /\ error.msg \in {"Error while creating DXSpec_Material",
                                      "Not all material spec overrides consumed!"})
       => ~dxspec_texture_keys_db.built
  /\ ~KeysBuilt => ~dxspec_texture_outs_db.built
  /\ ~OutsBuilt => ~dxspec_mat2textures_db.built

\* name folding fails on the keys of two materials: nothing later is built
\* and nothing is written
C14_Witness ==
  /\ Len(dxspec_material_db) = 2
  /\ KeysBuilt
  /\ Raised(dxspec_texture_outs_db.err)
  /\ pc = "raised"
  /\ ~dxspec_mat2textures_db.built
  /\ ~written

\* the orders of a database
Orders(db) ==
  {[i \in 1..Len(db) |-> db[f[i]]] :
     f \in {g \in [1..Len(db) -> 1..Len(db)] : \A a, b \in 1..Len(db) : g[a] = g[b] => a = b}}

\* the three containers built from a database; `ok` iff none raised
Outcome(db) ==
  LET k == DXSpec_TextureKeysContainer(db)
      o == DXSpec_TextureSpecContainer(k)
      t == DXSpec_Mat2TextureContainer(k, o)
  IN  IF Raised(k.err) THEN [ok |-> FALSE]
      ELSE IF Raised(o.err) THEN [ok |-> FALSE]
      ELSE IF Raised(t.err) THEN [ok |-> FALSE]
      ELSE [ok |-> TRUE, mat2key |-> k.str2key, str2key |-> o.str2key,
            key2str |-> o.key2str, tab |-> t.tab]

\* C15: for materials with pairwise distinct names, the order of the
\* materials decides neither whether the containers are built nor, when
\* they are, the table from material names to output names or the maps
\* between keys and names.
C15_OrderIndependent ==
  \A other \in Orders(dxspec_material_db) :
    /\ TableBuilt =>
         Outcome(other) = [ok |-> TRUE,
                           mat2key |-> dxspec_texture_keys_db.v.str2key,
                           str2key |-> dxspec_texture_outs_db.v.str2key,
                           key2str |-> dxspec_texture_outs_db.v.key2str,
                           tab |-> dxspec_mat2textures_db.v.tab]
    /\ (\/ Raised(dxspec_texture_keys_db.err)
        \/ Raised(dxspec_texture_outs_db.err)
        \/ Raised(dxspec_mat2textures_db.err)) => ~Outcome(other).ok

\* two materials with different diffuse keys, built to the table
C15_Witness ==
  /\ TableBuilt
  /\ Len(dxspec_material_db) = 2
  /\ Len(dxspec_texture_keys_db.v.key2list["diffuse"]) = 2
  /\ Len(dxspec_texture_keys_db.v.key2list["emissive"]) = 1

\* the key of slot s of a record; <<>> when it has none
KeyOf(s, mat) ==
  CASE s = "diffuse" -> get_diffuse_texture_key(mat).key
    [] s = "normal" -> get_normal_texture_key(mat).key
    [] s = "orm" -> get_orm_texture_key(mat).key
    [] s = "emissive" -> get_emissive_texture_key(mat).key

\* the entries of key2list.<s> that list the name
EntriesOf(s, name) ==
  {i \in 1..Len(dxspec_texture_keys_db.v.key2list[s]) :
     \E j \in 1..Len(dxspec_texture_keys_db.v.key2list[s][i].names) :
       dxspec_texture_keys_db.v.key2list[s][i].names[j] = name}

\* C20: in a built DXSpec_TextureKeysContainer two materials are in one
\* key2list entry of a slot iff their channels, format and resolution are
\* equal; each name is in exactly one entry of diffuse, normal and orm and
\* in at most one of emissive; str2key[name] = k iff the name is listed
\* under k; and DXSpec_Mat2TextureContainer finds key2str[str2key[name]] for
\* every such name.
C20_KeyGrouping ==
  KeysBuilt =>
    \A s \in SlotKinds :
      /\ \A a, b \in 1..Len(dxspec_material_db) :
           LET ka == KeyOf(s, dxspec_material_db[a].mat)
               kb == KeyOf(s, dxspec_material_db[b].mat)
           IN  (ka # <<>> /\ kb # <<>>) =>
                 ((EntriesOf(s, dxspec_material_db[a].name)
                     = EntriesOf(s, dxspec_material_db[b].name))
                  <=> (ka[1] = kb[1] /\ ka[2] = kb[2] /\ ka[3] = kb[3]))
      /\ \A r \in 1..Len(dxspec_material_db) :
           /\ Cardinality(EntriesOf(s, dxspec_material_db[r].name)) <= 1
           /\ s # "emissive" => Cardinality(EntriesOf(s, dxspec_material_db[r].name)) = 1
      /\ DOMAIN dxspec_texture_keys_db.v.str2key[s] = Grouped(s)
      /\ \A name \in Grouped(s) : \A i \in 1..Len(dxspec_texture_keys_db.v.key2list[s]) :
           (dxspec_texture_keys_db.v.str2key[s][name] = dxspec_texture_keys_db.v.key2list[s][i].key)
             <=> i \in EntriesOf(s, name)
      /\ (OutsBuilt /\ dxspec_mat2textures_db.built) =>
           /\ ~Raised(dxspec_mat2textures_db.err)
           /\ DOMAIN dxspec_mat2textures_db.v.tab[s] = Grouped(s)
           /\ \A name \in Grouped(s) :
                dxspec_mat2textures_db.v.tab[s][name]
                  = dxspec_texture_outs_db.v.key2str[s][dxspec_texture_keys_db.v.str2key[s][name]]

\* two materials under one diffuse key with a path, in the table
C20_Witness ==
  /\ TableBuilt
  /\ Len(dxspec_material_db) = 2
  /\ Len(dxspec_texture_keys_db.v.key2list["diffuse"]) = 1
  /\ Len(dxspec_texture_keys_db.v.key2list["diffuse"][1].names) = 2
  /\ dxspec_mat2textures_db.v.tab["diffuse"]
       = [n \in {dxspec_material_db[1].name, dxspec_material_db[2].name} |-> "wood.dds"]

\* a slot record of the override holds a strength / scale / factor directive
\* with a key besides 'op' and 'value'
ExtraDirectiveKey(override) ==
  \E slot \in {"diffuse", "normal", "occlusion", "roughness", "metalness", "emissive"} :
    /\ slot \in DOMAIN override
    /\ override[slot].t = "dict"
    /\ Has(override[slot].d, SlotAttr(slot))
    /\ override[slot].d[SlotAttr(slot)].t = "dict"
    /\ {"op", "value"} \subseteq DOMAIN override[slot].d[SlotAttr(slot)].d
    /\ DOMAIN override[slot].d[SlotAttr(slot)].d # {"op", "value"}

\* C21: a strength / scale / factor directive with a key other than 'op'
\* and 'value' makes the assembly of the material raise; the key is not
\* dropped.
C21_ExtraDirectiveKeyRaises ==
  (call.fn = "DXSpec_Material" /\ ExtraDirectiveKey(call.override)) => Raised(call.out.err)

\* C22: when name folding succeeds, no two descriptors that
\* DXTF_Tex2DDS.list_from_texture_specs returns have the same output_path,
\* across the four slot kinds together.
C22_OutputPathsUnique ==
  (OutsBuilt /\ written) =>
    \A i, j \in 1..Len(list_from_texture_specs(dxspec_texture_outs_db.v)) :
      list_from_texture_specs(dxspec_texture_outs_db.v)[i].output_path
        = list_from_texture_specs(dxspec_texture_outs_db.v)[j].output_path
      => i = j

\* C23: the assembly of a material leaves the '*' record as it was (the
\* pops of DXSpec_Material, of the slot constructors and of _modulate act on
\* a per-material deep copy), so a material assembled next is merged with
\* the same global values; and conv_spec.material_spec_overrides is as it
\* was, whether the assembly returned or raised.
C23_GlobalUnchanged ==
  call.fn = "DXSpec_Material" =>
    /\ call.global_after = call.global
    /\ recursive_overwrite(call.entry, call.global_after) = call.override
    /\ call.table_after = call.table

\* a '*' directive merged into a material's own diffuse record and consumed
\* by a successful assembly
C23_Witness ==
  /\ call.fn = "DXSpec_Material"
  /\ call.global = GStr
  /\ call.entry = EUri
  /\ ~Raised(call.out.err)
  /\ call.global_after = call.global

====
